---- MODULE Spec2Model ----
(***************************************************************************)
(* Model of dataPrepScripts/ExtractVariantCandidates.py (Clair ensemble):  *)
(* the streaming pileup-and-filter loop of make_candidates, the soft-clip  *)
(* test and the proximity index of known variants.                         *)
(*                                                                         *)
(* Text is modelled as sequences of one-character strings, so that the     *)
(* character scans of the CIGAR are the scans of the code.  Floating point *)
(* comparisons are modelled by the exact rational comparison (the two      *)
(* agree on every value the model reaches).  random.uniform is a           *)
(* nondeterministic draw.  One action is one iteration of the main loop.   *)
(***************************************************************************)
EXTENDS Integers, Sequences, FiniteSets, TLC

\* Number of lines the alignment stream delivers at most.
MaxRows == 2
\* Largest 1-based leftmost position of a line of the stream.
MaxStart == 3

\* An optional value: None, or the one-element sequence of the value.
None == <<>>
Some(x) == <<x>>
Get(o) == o[1]

VARIABLES
    args,                       \* the parsed command line and the files it names
    variants_map,               \* keys "contig:position" (1-based), as text
    non_variants_map,           \* keys "contig:position" (1-based), as text
    reference_start,            \* None or the 1-based start of the fetched region
    reference_sequence,         \* the fetched reference bases
    pileup,                     \* 0-based position -> tally
    POS,                        \* 0-based start of the last parsed record
    number_of_reads_processed,
    can_fp,                     \* the candidate lines written so far
    pc,                         \* "reading", "eof" (pipe drained, child not reaped), "done",
                                \* "raised" (left by an exception of the CIGAR loop)
    rows,                       \* lines read so far
    last,                       \* what the last iteration read, decoded and drained
    evicted,                    \* history: every <<position, tally>> deleted, in order
    batch                       \* history: the tallies of all admitted records, none deleted

vars == <<args, variants_map, non_variants_map, reference_start, reference_sequence,
          pileup, POS, number_of_reads_processed, can_fp, pc, rows, last,
          evicted, batch>>

----------------------------------------------------------------------------
(* Helpers on sequences and text *)

Range(s) == {s[i] : i \in 1..Len(s)}

Min2(a, b) == IF a < b THEN a ELSE b

\* TRUE; comparing a value with itself makes TLC compute it before a loop goes on
Computed(x) == x = x

RECURSIVE SumOver(_, _)
SumOver(f, S) ==
    IF S = {} THEN 0
    ELSE LET x == CHOOSE y \in S : TRUE IN f[x] + SumOver(f, S \ {x})

DigitChars == <<"0", "1", "2", "3", "4", "5", "6", "7", "8", "9">>

isdigit(c) == c \in Range(DigitChars)

\* int(text) of a decimal text
RECURSIVE int(_)
int(text) ==
    LET units == (CHOOSE i \in 1..10 : DigitChars[i] = text[Len(text)]) - 1
    IN IF Len(text) = 1 THEN units
       ELSE int(SubSeq(text, 1, Len(text) - 1)) * 10 + units

\* text.split(sep): the pieces of the text between the separators.  A text is a
\* sequence of characters; a name that holds no separator stands as one element.
RECURSIVE split(_, _)
split(text, sep) ==
    IF sep \notin Range(text) THEN <<text>>
    ELSE LET i == CHOOSE n \in 1..Len(text) :
                    text[n] = sep /\ \A j \in 1..(n - 1) : text[j] # sep
         IN <<SubSeq(text, 1, i - 1)>> \o split(SubSeq(text, i + 1, Len(text)), sep)

\* str(n) for n >= 0
RECURSIVE str(_)
str(n) == IF n < 10 THEN <<DigitChars[n + 1]>>
          ELSE str(n \div 10) \o <<DigitChars[(n % 10) + 1]>>

\* The CIGAR text of a list of <<length, opcode>> operations (SAM column 6).
RECURSIVE CigarText(_)
CigarText(ops) ==
    IF ops = <<>> THEN <<>>
    ELSE str(ops[1][1]) \o <<ops[1][2]>> \o CigarText(Tail(ops))

----------------------------------------------------------------------------
(* shared.utils.IUPAC_base_to_ACGT_base_dict: the fixed lookup that        *)
(* normalises an ambiguity code to one of A, C, G, T.                      *)
BASE2ACGT ==
    [b \in {"A", "C", "G", "T", "U", "R", "Y"} |->
        CASE b = "U" -> "T"
          [] b = "R" -> "A"
          [] b = "Y" -> "C"
          [] OTHER -> b]

\* evc_base_from raises KeyError on a base that is neither N nor in the lookup.
evc_base_defined(base) == base = "N" \/ base \in DOMAIN BASE2ACGT

evc_base_from(base) == IF base = "N" THEN base ELSE BASE2ACGT[base]

\* shared.param.expandReferenceRegion, scaled to the model's contig.
expandReferenceRegion == 1

\* shared.interval_tree.is_region_in: point membership of a 0-based position.
is_region_in(tree, ctg_name, position) ==
    ctg_name \in DOMAIN tree /\ position \in tree[ctg_name]

----------------------------------------------------------------------------
(* is_too_many_soft_clipped_bases_for_a_read_from *)

\* One character of the scan: st = [soft, total, advance].
SoftClipStep(st, c) ==
    IF isdigit(c)
    THEN [st EXCEPT !.advance = st.advance * 10 + int(<<c>>)]
    ELSE [soft |-> IF c = "S" THEN st.soft + st.advance ELSE st.soft,
          total |-> st.total + st.advance,
          advance |-> 0]

RECURSIVE SoftClipScan(_, _)
SoftClipScan(st, text) ==
    IF text = <<>> \/ ~Computed(st) THEN st
    ELSE SoftClipScan(SoftClipStep(st, text[1]), Tail(text))

\* the test with <= for <
is_too_many_soft_clipped_Inclusive(CIGAR) ==
    LET st == SoftClipScan([soft |-> 0, total |-> 0, advance |-> 0], CIGAR)
    IN 100 * ((st.total + 1) - st.soft) <= 55 * (st.total + 1)

\* 1.0 - float(soft) / (total + 1) < 0.55, multiplied through by 100 * (total + 1)
is_too_many_soft_clipped_bases_for_a_read_from(CIGAR) ==
    LET st == SoftClipScan([soft |-> 0, total |-> 0, advance |-> 0], CIGAR)
    IN 100 * ((st.total + 1) - st.soft) < 55 * (st.total + 1)

----------------------------------------------------------------------------
(* The pileup *)

Symbols == <<"A", "C", "G", "T", "I", "D", "N">>

SymbolSet == Range(Symbols)

\* defaultdict(lambda: {"A": 0, "C": 0, "G": 0, "T": 0, "I": 0, "D": 0, "N": 0})
NewTally == [s \in SymbolSet |-> 0]

\* pileup[position][symbol] += 1
Touch(p, position, symbol) ==
    IF position \in DOMAIN p
    THEN [p EXCEPT ![position][symbol] = @ + 1]
    ELSE [x \in DOMAIN p \cup {position} |->
            IF x = position THEN [NewTally EXCEPT ![symbol] = 1] ELSE p[x]]

\* SEQ[query_position] raises IndexError past the end of SEQ, and evc_base_from
\* raises KeyError on a character it does not know
BaseRaises(SEQ, query_position) ==
    \/ query_position >= Len(SEQ)
    \/ ~evc_base_defined(SEQ[query_position + 1])

\* for _ in range(advance): one base of an M, = or X run
RECURSIVE MatchRun(_, _, _)
MatchRun(st, SEQ, n) ==
    IF n = 0 \/ ~Computed(st) THEN st
    ELSE IF BaseRaises(SEQ, st.query_position) THEN [st EXCEPT !.raised = TRUE]
    ELSE MatchRun(
            [st EXCEPT !.pileup = Touch(st.pileup, st.reference_position,
                                        evc_base_from(SEQ[st.query_position + 1])),
                       !.reference_position = @ + 1,
                       !.query_position = @ + 1],
            SEQ, n - 1)

\* the scan that knows M and X but takes = for an operation without effect
DecodeStep_EqualsSkipped(st, c, SEQ) ==
    IF isdigit(c)
    THEN [st EXCEPT !.advance = st.advance * 10 + int(<<c>>)]
    ELSE LET done ==
                CASE c = "S" -> [st EXCEPT !.query_position = @ + st.advance]
                  [] c \in {"M", "X"} -> MatchRun(st, SEQ, st.advance)
                  [] c = "I" ->
                        [st EXCEPT !.pileup = Touch(st.pileup, st.reference_position - 1, "I"),
                                   !.query_position = @ + st.advance]
                  [] c = "D" ->
                        [st EXCEPT !.pileup = Touch(st.pileup, st.reference_position - 1, "D"),
                                   !.reference_position = @ + st.advance]
                  [] OTHER -> st
         IN [done EXCEPT !.advance = 0]

\* the scan in which an insertion consumes reference as well as query
DecodeStep_InsertionAdvances(st, c, SEQ) ==
    IF isdigit(c)
    THEN [st EXCEPT !.advance = st.advance * 10 + int(<<c>>)]
    ELSE LET done ==
                CASE c = "S" -> [st EXCEPT !.query_position = @ + st.advance]
                  [] c \in {"M", "=", "X"} -> MatchRun(st, SEQ, st.advance)
                  [] c = "I" ->
                        [st EXCEPT !.pileup = Touch(st.pileup, st.reference_position - 1, "I"),
                                   !.query_position = @ + st.advance,
                                   !.reference_position = @ + st.advance]
                  [] c = "D" ->
                        [st EXCEPT !.pileup = Touch(st.pileup, st.reference_position - 1, "D"),
                                   !.reference_position = @ + st.advance]
                  [] OTHER -> st
         IN [done EXCEPT !.advance = 0]

\* the scan in which a deletion is counted at the first deleted position
DecodeStep_DeletionAtFirstDeleted(st, c, SEQ) ==
    IF isdigit(c)
    THEN [st EXCEPT !.advance = st.advance * 10 + int(<<c>>)]
    ELSE LET done ==
                CASE c = "S" -> [st EXCEPT !.query_position = @ + st.advance]
                  [] c \in {"M", "=", "X"} -> MatchRun(st, SEQ, st.advance)
                  [] c = "I" ->
                        [st EXCEPT !.pileup = Touch(st.pileup, st.reference_position - 1, "I"),
                                   !.query_position = @ + st.advance]
                  [] c = "D" ->
                        [st EXCEPT !.pileup = Touch(st.pileup, st.reference_position, "D"),
                                   !.reference_position = @ + st.advance]
                  [] OTHER -> st
         IN [done EXCEPT !.advance = 0]

\* One character of the CIGAR scan of make_candidates.
\* st = [advance, reference_position, query_position, pileup, raised]
DecodeStep(st, c, SEQ) ==
    IF isdigit(c)
    THEN [st EXCEPT !.advance = st.advance * 10 + int(<<c>>)]
    ELSE LET done ==
                CASE c = "S" -> [st EXCEPT !.query_position = @ + st.advance]
                  [] c \in {"M", "=", "X"} -> MatchRun(st, SEQ, st.advance)
                  [] c = "I" ->
                        [st EXCEPT !.pileup = Touch(st.pileup, st.reference_position - 1, "I"),
                                   !.query_position = @ + st.advance]
                  [] c = "D" ->
                        [st EXCEPT !.pileup = Touch(st.pileup, st.reference_position - 1, "D"),
                                   !.reference_position = @ + st.advance]
                  [] OTHER -> st
         IN [done EXCEPT !.advance = 0]

RECURSIVE DecodeScan(_, _, _)
DecodeScan(st, text, SEQ) ==
    IF text = <<>> \/ ~Computed(st) \/ st.raised THEN st
    ELSE DecodeScan(DecodeStep(st, text[1], SEQ), Tail(text), SEQ)

\* The CIGAR loop over the record, from reference_position = start.
Decode(p, row, start) ==
    DecodeScan([advance |-> 0, reference_position |-> start, query_position |-> 0,
                pileup |-> p, raised |-> FALSE],
               row.CIGAR, row.SEQ)

\* the decoding from the 1-based POS
Accumulate_OneBased(p, row) == Decode(p, row, row.POS).pileup

\* The pileup after the record's CIGAR has been decoded into it (as far as the
\* loop got, if it raised).
Accumulate(p, row) == Decode(p, row, row.POS - 1).pileup

\* the loop is left by an exception
DecodeRaises(p, row) == Decode(p, row, row.POS - 1).raised

----------------------------------------------------------------------------
(* non_variants_map_near_variants_from *)

lower_limit_to_non_variants == 15
upper_limit_to_non_variants == 16

\* NearOffset with the bounds of the exclusion band taken inclusive
NearOffset_BandInclusive(m, vmap, key, i, lower, upper) ==
    LET position_offset == i - upper
        ctg_name == split(key, ":")[1]
        position == int(split(key, ":")[2])
        temp_position == position + position_offset
        temp_key == ctg_name \o <<":">> \o str(temp_position)
        can_add_to_non_variants_map ==
            /\ temp_key \notin vmap
            /\ temp_key \notin m.non_variants_map
            /\ \/ (-upper <= position_offset /\ position_offset <= -lower)
               \/ (lower <= position_offset /\ position_offset <= upper)
        can_add_to_non_variants_map_to_exclude ==
            lower >= position_offset /\ position_offset >= -lower
    IN IF temp_position <= 0 THEN m
       ELSE [non_variants_map |->
                IF can_add_to_non_variants_map
                THEN m.non_variants_map \cup {temp_key} ELSE m.non_variants_map,
             non_variants_map_to_exclude |->
                IF can_add_to_non_variants_map_to_exclude
                THEN m.non_variants_map_to_exclude \cup {temp_key}
                ELSE m.non_variants_map_to_exclude]

\* One pass of the inner loop: offset -upper + i of the variant `key`.
\* m = [non_variants_map, non_variants_map_to_exclude]
NearOffset(m, vmap, key, i, lower, upper) ==
    LET position_offset == i - upper
        ctg_name == split(key, ":")[1]
        position_str == split(key, ":")[2]
        position == int(position_str)
        temp_position == position + position_offset
        temp_key == ctg_name \o <<":">> \o str(temp_position)
        can_add_to_non_variants_map ==
            /\ temp_key \notin vmap
            /\ temp_key \notin m.non_variants_map
            /\ \/ (-upper <= position_offset /\ position_offset <= -lower)
               \/ (lower <= position_offset /\ position_offset <= upper)
        can_add_to_non_variants_map_to_exclude ==
            lower > position_offset /\ position_offset > -lower
    IN IF temp_position <= 0 THEN m
       ELSE [non_variants_map |->
                IF can_add_to_non_variants_map
                THEN m.non_variants_map \cup {temp_key} ELSE m.non_variants_map,
             non_variants_map_to_exclude |->
                IF can_add_to_non_variants_map_to_exclude
                THEN m.non_variants_map_to_exclude \cup {temp_key}
                ELSE m.non_variants_map_to_exclude]

RECURSIVE NearOffsets(_, _, _, _, _, _)
NearOffsets(m, vmap, key, i, lower, upper) ==
    IF i > upper * 2 \/ ~Computed(m) THEN m
    ELSE NearOffsets(NearOffset(m, vmap, key, i, lower, upper), vmap, key, i + 1, lower, upper)

RECURSIVE NearKeys(_, _, _, _, _)
NearKeys(m, vmap, keys, lower, upper) ==
    IF keys = {} \/ ~Computed(m) THEN m
    ELSE LET key == CHOOSE k \in keys : TRUE
         IN NearKeys(NearOffsets(m, vmap, key, 0, lower, upper), vmap,
                     keys \ {key}, lower, upper)

non_variants_map_near_variants_from(vmap, lower, upper) ==
    LET m == NearKeys([non_variants_map |-> {}, non_variants_map_to_exclude |-> {}],
                      vmap, vmap, lower, upper)
    IN m.non_variants_map \ m.non_variants_map_to_exclude

----------------------------------------------------------------------------
(* The settings make_candidates derives from its arguments *)

is_building_training_dataset == args.gen4Training = TRUE
is_variant_file_given == args.var_fn # None
is_bed_file_given == args.bed_fn # None
is_ctg_name_given == args.ctgName # None
is_ctg_range_given ==
    is_ctg_name_given /\ args.ctgStart # None /\ args.ctgEnd # None

minimum_depth_for_candidate == args.minCoverage

\* a rational [num, den]; forced to 0 when building a training dataset
minimum_af_for_candidate ==
    IF is_building_training_dataset THEN [num |-> 0, den |-> 1] ELSE args.threshold

need_consider_candidates_near_variant ==
    is_building_training_dataset /\ is_variant_file_given

\* variants_map_from: the keys ctg_name + ":" + position_str of the rows of the
\* variant file (a row is <<contig name, position text>>), or {} without one
variants_map_from(a) ==
    IF a.gen4Training = TRUE /\ a.var_fn # None
    THEN {<<columns[1], ":">> \o columns[2] : columns \in Get(a.var_fn)}
    ELSE {}

\* reference_start of the fetched region, None without a contig range
reference_start_from(a) ==
    IF a.ctgName # None /\ a.ctgStart # None /\ a.ctgEnd # None
    THEN IF Get(a.ctgStart) - expandReferenceRegion < 1 THEN Some(1)
         ELSE Some(Get(a.ctgStart) - expandReferenceRegion)
    ELSE None

\* reference_sequence_from: what samtools faidx returns for the region
reference_sequence_from(a) ==
    IF reference_start_from(a) = None THEN a.ref_fn
    ELSE SubSeq(a.ref_fn, Get(reference_start_from(a)),
                Min2(Get(a.ctgEnd) + expandReferenceRegion, Len(a.ref_fn)))

----------------------------------------------------------------------------
(* The position filter pipeline *)

\* list(position_dict.items()): the counters in the order of the dict
Items(position_dict) == [i \in 1..Len(Symbols) |-> <<Symbols[i], position_dict[Symbols[i]]>>]

\* the counters left in the order of the dict
SortDescending_Unsorted(items) == items

\* base_count.sort(key=lambda x: -x[1]): the stable sort, by the place each item takes
PlaceOf(items, i) ==
    1 + Cardinality({j \in 1..Len(items) :
            \/ items[j][2] > items[i][2]
            \/ (items[j][2] = items[i][2] /\ j < i)})

\* the sorted list
SortDescending(items) ==
    [k \in 1..Len(items) |-> items[CHOOSE i \in 1..Len(items) : PlaceOf(items, i) = k]]

\* the depth with the deletions left in
DepthOf_KeepsDeletions(position_dict) ==
    SumOver(position_dict, DOMAIN position_dict) - position_dict["I"]

\* sum(x[1] for x in base_count) - position_dict["I"] - position_dict["D"]
DepthOf(position_dict) ==
    SumOver(position_dict, DOMAIN position_dict) - position_dict["I"] - position_dict["D"]

\* the range test on the 0-based position
pass_ctg_ZeroBased(zero_based_position) ==
    \/ ~is_ctg_range_given
    \/ (Get(args.ctgStart) <= zero_based_position
            /\ zero_based_position <= Get(args.ctgEnd))

\* ctg_start <= zero_based_position+1 <= ctg_end
pass_ctg(zero_based_position) ==
    \/ ~is_ctg_range_given
    \/ (Get(args.ctgStart) <= zero_based_position + 1
            /\ zero_based_position + 1 <= Get(args.ctgEnd))

pass_bed(zero_based_position) ==
    \/ ~is_bed_file_given
    \/ is_region_in(Get(args.bed_fn), Get(args.ctgName), zero_based_position)

\* the sampling without the test on the known variants
pass_output_probability_KeepsVariants(zero_based_position, draw) ==
    IF is_building_training_dataset THEN draw ELSE TRUE

\* draw: whether random.uniform(0, 1) came out <= the output probability in force
pass_output_probability(zero_based_position, draw) ==
    LET temp_key == <<Get(args.ctgName), ":">> \o str(zero_based_position + 1)
    IN IF is_building_training_dataset /\ is_variant_file_given
       THEN /\ temp_key \notin variants_map
            /\ \/ (temp_key \in non_variants_map /\ draw)
               \/ (temp_key \notin non_variants_map /\ draw)
       ELSE IF is_building_training_dataset THEN draw
       ELSE TRUE

\* the index into reference_sequence, and Python's indexing of a string
ReferenceIndex(zero_based_position) ==
    zero_based_position - (IF reference_start = None THEN 0 ELSE Get(reference_start) - 1)

IndexInRange(s, i) == -Len(s) <= i /\ i < Len(s)

CharAt(s, i) == IF i >= 0 THEN s[i + 1] ELSE s[Len(s) + i + 1]

\* the try block succeeds
ReferenceLookupOk(zero_based_position) ==
    /\ IndexInRange(reference_sequence, ReferenceIndex(zero_based_position))
    /\ evc_base_defined(CharAt(reference_sequence, ReferenceIndex(zero_based_position)))

\* minimum_depth_for_candidate = 0 in training mode (the line commented out)
pass_depth_NotInTraining(depth) ==
    is_building_training_dataset \/ ~(depth < minimum_depth_for_candidate)

\* if depth < minimum_depth_for_candidate: continue
pass_depth(depth) == ~(depth < minimum_depth_for_candidate)

\* the test with > for >=
pass_af_Strict(base_count, reference_base, denominator) ==
    \/ base_count[1][1] # reference_base
    \/ base_count[2][2] * minimum_af_for_candidate.den
            > minimum_af_for_candidate.num * denominator

\* float(base_count[1][1]) / denominator >= minimum_af_for_candidate
pass_af(base_count, reference_base, denominator) ==
    \/ base_count[1][1] # reference_base
    \/ base_count[2][2] * minimum_af_for_candidate.den
            >= minimum_af_for_candidate.num * denominator

\* One pass of the loop over the drained positions: what became of the position.
\* stage is the test that rejected it, or "written".
FilterPosition(p, zero_based_position, draw) ==
    LET position_dict == p[zero_based_position]
        seen == [position |-> zero_based_position, tally |-> position_dict,
                 stage |-> "region", reference_base |-> "-", depth |-> -1,
                 base_count |-> <<>>]
    IN IF ~pass_bed(zero_based_position) \/ ~pass_ctg(zero_based_position) THEN seen
       ELSE IF ~pass_output_probability(zero_based_position, draw)
       THEN [seen EXCEPT !.stage = "probability"]
       ELSE IF ~ReferenceLookupOk(zero_based_position)
       THEN [seen EXCEPT !.stage = "reference"]
       ELSE
        LET reference_base ==
                evc_base_from(CharAt(reference_sequence, ReferenceIndex(zero_based_position)))
            depth == DepthOf(position_dict)
            denominator == IF depth > 0 THEN depth ELSE 1
            base_count == SortDescending(Items(position_dict))
            known == [seen EXCEPT !.reference_base = reference_base, !.depth = depth]
        IN IF ~pass_depth(depth) THEN [known EXCEPT !.stage = "depth"]
           ELSE IF ~pass_af(base_count, reference_base, denominator)
           THEN [known EXCEPT !.stage = "af", !.base_count = base_count]
           ELSE [known EXCEPT !.stage = "written", !.base_count = base_count]

\* the candidate line written for an accepted position
CandidateLine(e) ==
    [ctg_name |-> Get(args.ctgName), position |-> e.position + 1,
     reference_base |-> e.reference_base, depth |-> e.depth, base_count |-> e.base_count]

\* positions.sort(): the k-th of the list is the key with k - 1 keys below it
SortAscending(S) ==
    [k \in 1..Cardinality(S) |->
        CHOOSE x \in S : Cardinality({y \in S : y < x}) = k - 1]

\* the drain that stops one position short of the horizon
PositionsToDrain_OneShort(p, pos, is_finish_reading_output) ==
    SortAscending(IF ~is_finish_reading_output
                  THEN {x \in DOMAIN p : x < pos - 1}
                  ELSE DOMAIN p)

\* the positions an iteration drains
PositionsToDrain(p, pos, is_finish_reading_output) ==
    SortAscending(IF ~is_finish_reading_output
                  THEN {x \in DOMAIN p : x < pos}
                  ELSE DOMAIN p)

\* for zero_based_position in positions: ... can_fp.stdin.write(output)
Filtered(p, positions, draws) ==
    [k \in 1..Len(positions) |-> FilterPosition(p, positions[k], draws[positions[k]])]

Written(log) == SelectSeq(log, LAMBDA e : e.stage = "written")

LinesOf(w) == [k \in 1..Len(w) |-> CandidateLine(w[k])]

Lines(log) == LinesOf(Written(log))

\* for zero_based_position in positions: del pileup[zero_based_position]
Evict(p, positions) == [x \in DOMAIN p \ Range(positions) |-> p[x]]

\* what the deletions of an iteration take out of the pileup, in their order
Deleted(p, positions) ==
    [k \in 1..Len(positions) |-> [position |-> positions[k], tally |-> p[positions[k]]]]

\* The draws an iteration may make: none outside training mode.
Draws(positions) ==
    IF is_building_training_dataset THEN [Range(positions) -> BOOLEAN]
    ELSE {[x \in Range(positions) |-> TRUE]}

----------------------------------------------------------------------------
(* The inputs: the command lines and the alignment streams the runs are    *)
(* checked on.                                                             *)

ContigName == "chr1"
OtherContig == "chr2"

Cycle(c, n) == [i \in 1..n |-> c[((i - 1) % Len(c)) + 1]]

\* the reference of the processed contig: an ambiguity code and an N in it
ShortContig == <<"A", "C", "R", "N">>
LongContig == Cycle(<<"A", "C", "G", "T">>, 52)

Rational(n, d) == [num |-> n, den |-> d]

DefaultArgs ==
    [gen4Training |-> FALSE, var_fn |-> None, bed_fn |-> None, ref_fn |-> ShortContig,
     ctgName |-> Some(ContigName), ctgStart |-> None, ctgEnd |-> None,
     minCoverage |-> 1, threshold |-> Rational(1, 8), minMQ |-> 10,
     bam_fn |-> [kind |-> "reads", start |-> 0, base |-> "-"]]

PlainArgs ==
    {[DefaultArgs EXCEPT !.minCoverage = ct[1], !.threshold = ct[2]] :
        ct \in {<<0, Rational(1, 2)>>, <<1, Rational(1, 8)>>, <<1, Rational(1, 2)>>,
                <<2, Rational(1, 8)>>}}

BedTree == [c \in {ContigName} |-> {1, 2}]

RegionArgs ==
    {[DefaultArgs EXCEPT !.ctgStart = Some(2), !.ctgEnd = Some(3)],
     [DefaultArgs EXCEPT !.bed_fn = Some(BedTree)],
     [DefaultArgs EXCEPT !.bed_fn = Some(BedTree), !.ctgStart = Some(3), !.ctgEnd = Some(4),
                         !.minCoverage = 0]}

\* the rows of a variant file: contig name and 1-based position, as text
VariantRow(ctg_name, position) == <<ctg_name, str(position)>>

VariantFiles ==
    {{VariantRow(ContigName, 2), VariantRow(OtherContig, 3)}, {VariantRow(ContigName, 18)}}

TrainingArgs ==
    {[DefaultArgs EXCEPT !.gen4Training = TRUE, !.minCoverage = 2]}
    \cup {[DefaultArgs EXCEPT !.gen4Training = TRUE, !.var_fn = Some(v)] : v \in VariantFiles}

\* The alignment file holds one read of 50 matches over the long contig, from
\* `start`, that differs from it at offset 10 only, where it has `base`.
SingleReadFiles ==
    {f \in [kind : {"one50M"}, start : {1, 2}, base : {"A", "C", "G", "T", "N"}] :
        f.base # LongContig[f.start + 10]}

SingleReadArgs ==
    {[DefaultArgs EXCEPT !.ref_fn = LongContig, !.bam_fn = f,
                         !.minCoverage = ct[1], !.threshold = ct[2]] :
        f \in {g \in SingleReadFiles : g.base \in {"C", "N"}},
        ct \in {<<1, Rational(0, 1)>>, <<1, Rational(1, 8)>>, <<0, Rational(1, 1)>>,
                <<1, Rational(1, 1)>>, <<4, Rational(1, 8)>>}}

Configs == PlainArgs \cup RegionArgs \cup TrainingArgs \cup SingleReadArgs

\* the query bases a CIGAR consumes
RECURSIVE QueryLen(_)
QueryLen(ops) ==
    IF ops = <<>> THEN 0
    ELSE (IF ops[1][2] \in {"M", "I", "S", "=", "X"} THEN ops[1][1] ELSE 0)
         + QueryLen(Tail(ops))

Row(qname, rname, pos, mapq, ops, seq) ==
    [QNAME |-> qname, RNAME |-> rname, POS |-> pos, MAPQ |-> mapq,
     CIGAR |-> CigarText(ops), SEQ |-> seq, ops |-> ops]

NoRow == Row(<<>>, "", 0, 0, <<>>, <<>>)

ReadName == <<"r">>

PatternA == <<"A", "C", "G", "T">>
PatternB == <<"C", "N", "Y">>

\* reads that pass the soft-clip test; the last one sits on its boundary
AdmittedOps ==
    {<< <<2, "M">> >>,
     << <<1, "I">>, <<1, "M">> >>,
     << <<1, "S">>, <<1, "D">>, <<2, "M">> >>,
     << <<1, "M">>, <<2, "I">>, <<1, "M">>, <<1, "D">>, <<1, "M">> >>}

BoundaryOps == << <<9, "S">>, <<1, "M">>, <<9, "H">> >>

\* reads that fail it
SoftClippedOps ==
    {<< <<2, "S">>, <<1, "M">> >>,
     << <<3, "S">>, <<2, "M">> >>,
     << <<9, "S">>, <<1, "M">>, <<8, "H">> >>,
     << <<80, "S">>, <<20, "M">> >>}

Starts == 1..MaxStart

ReadRows ==
    {Row(ReadName, ContigName, s, 60, ops, Cycle(PatternA, QueryLen(ops))) :
        s \in Starts, ops \in AdmittedOps}
    \cup {Row(ReadName, ContigName, s, 60, << <<1, "=">>, <<1, "X">> >>, Cycle(PatternB, 2)) :
            s \in Starts}
    \cup {Row(ReadName, ContigName, MaxStart, 60, BoundaryOps,
              Cycle(PatternA, QueryLen(BoundaryOps)))}

\* single runs of = and X, and three longer reads that start at 0-based 100
RunRows ==
    {Row(ReadName, ContigName, 1, 60, << <<3, "X">> >>, Cycle(PatternB, 3)),
     Row(ReadName, ContigName, 2, 60, << <<2, "=">> >>, Cycle(PatternA, 2))}

FarStart == 101

FarOps ==
    {<< <<10, "M">> >>,
     << <<5, "M">>, <<2, "I">>, <<5, "M">> >>,
     << <<5, "M">>, <<3, "D">>, <<5, "M">> >>}

FarRows ==
    {Row(ReadName, ContigName, FarStart, 60, ops, Cycle(PatternA, QueryLen(ops))) :
        ops \in FarOps}

LowQualityRows ==
    {Row(ReadName, ContigName, s, 0, << <<2, "M">> >>, Cycle(PatternA, 2)) : s \in Starts}

StarRows ==
    {[Row(ReadName, ContigName, MaxStart, 60, <<>>, <<"*">>) EXCEPT !.CIGAR = <<"*">>]}

SoftClippedRows ==
    {Row(ReadName, ContigName, MaxStart, 60, ops, Cycle(PatternA, QueryLen(ops))) :
        ops \in SoftClippedOps}

OtherContigRows == {Row(ReadName, OtherContig, 1, 60, << <<2, "M">> >>, Cycle(PatternA, 2))}

\* records without their bases (SEQ '*'), or with fewer bases than the CIGAR spans
RaisingRows ==
    {Row(ReadName, ContigName, MaxStart, 60, << <<2, "M">> >>, seq) : seq \in {<<"*">>, <<"A">>}}

HeaderRows == {Row(<<"@", "S", "Q">>, "SN:chr1", 0, 0, <<>>, <<>>)}

\* the read of the single-read stream: the long contig's bases from `start`,
\* but for `base` at offset 10
SingleRead(start, base) ==
    Row(ReadName, ContigName, start, 60, << <<50, "M">> >>,
        [i \in 1..50 |-> IF i = 11 THEN base ELSE LongContig[start - 1 + i]])


\* the reads of the runs that build a training dataset, which branch on every draw
TrainingRows ==
    {r \in ReadRows : r.ops \in {<< <<2, "M">> >>, << <<1, "I">>, <<1, "M">> >>}}

\* The lines the alignment stream may deliver next: coordinate-sorted.
NextRows ==
    LET candidates ==
            IF args.bam_fn.kind = "one50M"
            THEN (IF number_of_reads_processed = 0
                  THEN {SingleRead(args.bam_fn.start, args.bam_fn.base)}
                  ELSE {})
                 \cup {r \in LowQualityRows : r.POS = 2} \cup OtherContigRows
            ELSE IF args.gen4Training
            THEN TrainingRows \cup LowQualityRows \cup OtherContigRows \cup HeaderRows
            ELSE ReadRows \cup RunRows \cup FarRows \cup LowQualityRows \cup StarRows
                 \cup SoftClippedRows \cup OtherContigRows \cup HeaderRows
                 \cup RaisingRows
    IN {r \in candidates : r.RNAME # ContigName \/ r.POS - 1 >= POS}

----------------------------------------------------------------------------
(* make_candidates *)

Init ==
    /\ args \in Configs
    /\ variants_map = variants_map_from(args)
    /\ non_variants_map =
            non_variants_map_near_variants_from(variants_map_from(args),
                lower_limit_to_non_variants, upper_limit_to_non_variants)
    /\ reference_start = reference_start_from(args)
    /\ reference_sequence = reference_sequence_from(args)
    /\ pileup = <<>>
    /\ POS = 0
    /\ number_of_reads_processed = 0
    /\ can_fp = <<>>
    /\ pc = "reading"
    /\ rows = 0
    /\ last = [kind |-> "start", row |-> NoRow, piled |-> <<>>, drained |-> <<>>]
    /\ evicted = <<>>
    /\ batch = <<>>

Setup == <<args, variants_map, non_variants_map, reference_start, reference_sequence>>

\* if columns[0][0] == "@": continue
ReadHeader(row) ==
    /\ pc = "reading" /\ rows < MaxRows
    /\ row.QNAME[1] = "@"
    /\ rows' = rows + 1
    /\ last' = [kind |-> "header", row |-> row, piled |-> pileup, drained |-> <<>>]
    /\ UNCHANGED <<Setup, pileup, POS, number_of_reads_processed, can_fp, pc, evicted, batch>>

\* if RNAME != ctg_name: continue
ReadOtherContig(row) ==
    /\ pc = "reading" /\ rows < MaxRows
    /\ row.QNAME[1] # "@"
    /\ row.RNAME # Get(args.ctgName)
    /\ rows' = rows + 1
    /\ last' = [kind |-> "other_contig", row |-> row, piled |-> pileup, drained |-> <<>>]
    /\ UNCHANGED <<Setup, pileup, POS, number_of_reads_processed, can_fp, pc, evicted, batch>>

\* the test that skips a record of the contig, or "admitted"
Admission(row) ==
    IF row.MAPQ < args.minMQ THEN "mapq"
    ELSE IF row.CIGAR = <<"*">> THEN "star"
    ELSE IF is_too_many_soft_clipped_bases_for_a_read_from(row.CIGAR) THEN "softclip"
    ELSE "admitted"

\* the record decoded before it is tested
ReadRejected_DecodesFirst(row) ==
    /\ pc = "reading" /\ rows < MaxRows
    /\ row.QNAME[1] # "@"
    /\ row.RNAME = Get(args.ctgName)
    /\ Admission(row) # "admitted"
    /\ POS' = row.POS - 1
    /\ rows' = rows + 1
    /\ pileup' = Accumulate(pileup, row)
    /\ last' = [kind |-> Admission(row), row |-> row, piled |-> pileup', drained |-> <<>>]
    /\ UNCHANGED <<Setup, number_of_reads_processed, can_fp, pc, evicted, batch>>

\* POS is assigned, then the record is skipped by `continue`
ReadRejected(row) ==
    /\ pc = "reading" /\ rows < MaxRows
    /\ row.QNAME[1] # "@"
    /\ row.RNAME = Get(args.ctgName)
    /\ Admission(row) # "admitted"
    /\ POS' = row.POS - 1
    /\ rows' = rows + 1
    /\ last' = [kind |-> Admission(row), row |-> row, piled |-> pileup, drained |-> <<>>]
    /\ UNCHANGED <<Setup, pileup, number_of_reads_processed, can_fp, pc, evicted, batch>>

\* the record is decoded into the pileup and the positions behind it are drained
ReadAdmitted(row) ==
    /\ pc = "reading" /\ rows < MaxRows
    /\ row.QNAME[1] # "@"
    /\ row.RNAME = Get(args.ctgName)
    /\ Admission(row) = "admitted"
    /\ ~DecodeRaises(pileup, row)
    /\ \E piled \in {Accumulate(pileup, row)} :
       \E positions \in {PositionsToDrain(piled, row.POS - 1, FALSE)} :
       \E draws \in Draws(positions) :
       \E log \in {Filtered(piled, positions, draws)} :
               /\ POS' = row.POS - 1
               /\ number_of_reads_processed' = number_of_reads_processed + 1
               /\ can_fp' = can_fp \o Lines(log)
               /\ pileup' = Evict(piled, positions)
               /\ evicted' = evicted \o Deleted(piled, positions)
               /\ last' = [kind |-> "admitted", row |-> row, piled |-> piled,
                           drained |-> log]
    /\ batch' = Accumulate(batch, row)
    /\ rows' = rows + 1
    /\ UNCHANGED <<Setup, pc>>

\* the record is admitted and counted, and the CIGAR loop raises on its SEQ: the
\* exception is not caught, so the run ends there, nothing more drained or written
ReadRaises(row) ==
    /\ pc = "reading" /\ rows < MaxRows
    /\ row.QNAME[1] # "@"
    /\ row.RNAME = Get(args.ctgName)
    /\ Admission(row) = "admitted"
    /\ DecodeRaises(pileup, row)
    /\ POS' = row.POS - 1
    /\ number_of_reads_processed' = number_of_reads_processed + 1
    /\ pileup' = Accumulate(pileup, row)
    /\ pc' = "raised"
    /\ rows' = rows + 1
    /\ batch' = Accumulate(batch, row)
    /\ last' = [kind |-> "admitted", row |-> row, piled |-> pileup', drained |-> <<>>]
    /\ UNCHANGED <<Setup, can_fp, evicted>>

\* row == '' while the child has not been reaped: the positions behind POS are drained
ReadEmpty ==
    /\ pc \in {"reading", "eof"}
    /\ \E positions \in {PositionsToDrain(pileup, POS, FALSE)} :
       \E draws \in Draws(positions) :
       \E log \in {Filtered(pileup, positions, draws)} :
               /\ can_fp' = can_fp \o Lines(log)
               /\ pileup' = Evict(pileup, positions)
               /\ evicted' = evicted \o Deleted(pileup, positions)
               /\ last' = [kind |-> "empty", row |-> NoRow, piled |-> pileup, drained |-> log]
    /\ pc' = "eof"
    /\ UNCHANGED <<Setup, POS, number_of_reads_processed, rows, batch>>

\* row == '' and the child has exited: every held position is drained, then break
EndOfInput ==
    /\ pc \in {"reading", "eof"}
    /\ \E positions \in {PositionsToDrain(pileup, POS, TRUE)} :
       \E draws \in Draws(positions) :
       \E log \in {Filtered(pileup, positions, draws)} :
               /\ can_fp' = can_fp \o Lines(log)
               /\ pileup' = Evict(pileup, positions)
               /\ evicted' = evicted \o Deleted(pileup, positions)
               /\ last' = [kind |-> "end", row |-> NoRow, piled |-> pileup, drained |-> log]
    /\ pc' = "done"
    /\ UNCHANGED <<Setup, POS, number_of_reads_processed, rows, batch>>

Next ==
    \/ \E row \in NextRows : ReadHeader(row)
    \/ \E row \in NextRows : ReadOtherContig(row)
    \/ \E row \in NextRows : ReadRejected(row)
    \/ \E row \in NextRows : ReadAdmitted(row)
    \/ \E row \in NextRows : ReadRaises(row)
    \/ ReadEmpty
    \/ EndOfInput

Spec == Init /\ [][Next]_vars

\* The stream is finite: the pipe reaches its end and the child exits, so the
\* iteration that finds row == '' with poll() not None comes about.
FairSpec == Spec /\ WF_vars(EndOfInput)

----------------------------------------------------------------------------
(* The proximity index on its own: make_candidates builds variants_map and *)
(* non_variants_map from the variant file before it reads any alignment.   *)

\* at most this many rows in a variant file
MaxVariants == 2

\* Rows of variant files: variants at the start of a contig, variants whose
\* windows overlap or touch, the same position on two contigs, and a position
\* written with a leading zero.
ProximityRows ==
    {VariantRow(ContigName, p) : p \in {1, 17, 18, 32, 33, 1000, 1020}}
    \cup {<<ContigName, <<"0", "1", "7">> >>}
    \cup {VariantRow(OtherContig, p) : p \in {3, 1000}}

ProximityFiles == {f \in SUBSET ProximityRows : Cardinality(f) <= MaxVariants}

ProximityArgs ==
    {[DefaultArgs EXCEPT !.gen4Training = TRUE, !.var_fn = Some(f)] : f \in ProximityFiles}

ProximityInit ==
    /\ args \in ProximityArgs
    /\ variants_map = {}
    /\ non_variants_map = {}
    /\ reference_start = reference_start_from(args)
    /\ reference_sequence = reference_sequence_from(args)
    /\ pileup = <<>>
    /\ POS = 0
    /\ number_of_reads_processed = 0
    /\ can_fp = <<>>
    /\ pc = "index"
    /\ rows = 0
    /\ last = [kind |-> "start", row |-> NoRow, piled |-> <<>>, drained |-> <<>>]
    /\ evicted = <<>>
    /\ batch = <<>>

\* variants_map = variants_map_from(...); non_variants_map =
\* non_variants_map_near_variants_from(variants_map)
BuildIndex ==
    /\ pc = "index"
    /\ variants_map' = variants_map_from(args)
    /\ non_variants_map' =
            non_variants_map_near_variants_from(variants_map_from(args),
                lower_limit_to_non_variants, upper_limit_to_non_variants)
    /\ pc' = "reading"
    /\ UNCHANGED <<args, reference_start, reference_sequence, pileup, POS,
                   number_of_reads_processed, can_fp, rows, last, evicted, batch>>

ProximityNext == BuildIndex

ProximitySpec == ProximityInit /\ [][ProximityNext]_vars

----------------------------------------------------------------------------
(* What the properties below are stated with *)

\* what the last iteration drained
Drained == Range(last.drained)

\* the summed lengths of the operations of a CIGAR whose opcode is in `codes`
RECURSIVE SumLengths(_, _)
SumLengths(ops, codes) ==
    IF ops = <<>> THEN 0
    ELSE (IF ops[1][2] \in codes THEN ops[1][1] ELSE 0) + SumLengths(Tail(ops), codes)

OpCodes == {"M", "I", "D", "S", "H", "N", "P", "=", "X"}

\* the soft-clip rule on the operations of a CIGAR: 20 * S > 9 * (T + 1)
TooManySoftClipped(ops) ==
    20 * SumLengths(ops, {"S"}) > 9 * (SumLengths(ops, OpCodes) + 1)

\* a record of the processed contig that reaches the soft-clip test
ReachesSoftClipTest(row) ==
    /\ row.QNAME[1] # "@"
    /\ row.RNAME = ContigName
    /\ row.MAPQ >= args.minMQ
    /\ row.CIGAR # <<"*">>

BaseCalls(tally) == tally["A"] + tally["C"] + tally["G"] + tally["T"]

Coverage(tally) == BaseCalls(tally) + tally["N"]

LargestCount(tally) == CHOOSE c \in {tally[x] : x \in SymbolSet} : \A x \in SymbolSet : tally[x] <= c

\* the first symbol, in the order of the tally, that has the largest count
TopIndex(tally) ==
    CHOOSE i \in 1..Len(Symbols) :
        /\ tally[Symbols[i]] = LargestCount(tally)
        /\ \A j \in 1..(i - 1) : tally[Symbols[j]] < LargestCount(tally)

TopSymbol(tally) == Symbols[TopIndex(tally)]

\* the largest count among the other symbols
SecondCount(tally) ==
    LET others == {tally[Symbols[j]] : j \in (1..Len(Symbols)) \ {TopIndex(tally)}}
    IN CHOOSE c \in others : \A d \in others : d <= c

AtLeastOne(n) == IF n > 0 THEN n ELSE 1

\* the threshold in force: the configured one, 0 in training mode
ThresholdInForce == IF args.gen4Training THEN Rational(0, 1) ELSE args.threshold

NonIncreasing(base_count) ==
    \A k \in 1..(Len(base_count) - 1) : base_count[k][2] >= base_count[k + 1][2]

----------------------------------------------------------------------------
(* C1 *)

\* C1: the 1-based positions of the candidates written in one run are strictly
\* increasing, so no position is written twice.
C1_StrictlyIncreasing ==
    \A i, j \in 1..Len(can_fp) : i < j => can_fp[i].position < can_fp[j].position

----------------------------------------------------------------------------
(* C2 *)

ReadsRow == rows' = rows + 1 /\ last'.row.QNAME[1] # "@"

RejectedSomewhere(row) ==
    \/ row.RNAME # ContigName
    \/ row.MAPQ < args.minMQ
    \/ row.CIGAR = <<"*">>
    \/ TooManySoftClipped(row.ops)

\* C2 as stated: a rejected record leaves the tallies, the processed-read counter,
\* POS and the output as they were; only an admitted record increments the
\* counter, by exactly 1.
C2_RejectedNoSideEffects ==
    [][ReadsRow =>
            IF RejectedSomewhere(last'.row)
            THEN UNCHANGED <<pileup, number_of_reads_processed, POS, can_fp>>
            ELSE number_of_reads_processed' = number_of_reads_processed + 1]_vars

\* C2 amended: a record of another contig leaves the tallies, the counter, POS and
\* the output as they were; a record of the processed contig rejected by the
\* mapping quality, '*' or soft-clip test leaves the tallies, the counter and the
\* output as they were and sets POS to its 0-based start; the counter changes only
\* when a record is admitted, and then by exactly 1.
C2_RejectedFrame ==
    [][/\ ReadsRow =>
            IF last'.row.RNAME # ContigName
            THEN UNCHANGED <<pileup, number_of_reads_processed, POS, can_fp>>
            ELSE IF RejectedSomewhere(last'.row)
            THEN /\ UNCHANGED <<pileup, number_of_reads_processed, can_fp>>
                 /\ POS' = last'.row.POS - 1
            ELSE number_of_reads_processed' = number_of_reads_processed + 1
       /\ ~ReadsRow => UNCHANGED number_of_reads_processed]_vars

\* a record rejected for its soft clips arrived while positions were held and an
\* earlier read had been counted, and moved POS
C2_Witness ==
    /\ last.kind = "softclip"
    /\ DOMAIN pileup # {}
    /\ number_of_reads_processed = 1
    /\ \E x \in DOMAIN pileup : x < POS

----------------------------------------------------------------------------
(* C3 *)

\* C3: on a record that reaches it, the soft-clip test rejects exactly when
\* 20 * S > 9 * (T + 1), S the summed lengths of the S operations and T of all
\* operations; a record it rejects changes no tally; 80S20M is rejected.
C3_SoftClipRule ==
    [][(ReadsRow /\ ReachesSoftClipTest(last'.row)) =>
            /\ (last'.kind = "softclip") <=> TooManySoftClipped(last'.row.ops)
            /\ (last'.kind # "softclip") <=> (last'.kind = "admitted")
            /\ TooManySoftClipped(last'.row.ops) => pileup' = pileup
            /\ last'.row.ops = << <<80, "S">>, <<20, "M">> >> => last'.kind = "softclip"]_vars

\* 80S20M was read while positions were held, and was rejected
C3_Witness ==
    /\ last.row.ops = << <<80, "S">>, <<20, "M">> >>
    /\ last.kind = "softclip"
    /\ DOMAIN pileup # {}

----------------------------------------------------------------------------
(* C4 *)

ReachedAfTest(e) == e.stage \in {"af", "written"}

\* C4: a drained position that passed the region, sampling, reference and depth
\* tests is written exactly when its top-ranked symbol differs from the reference
\* base or its second-ranked count over max(depth, 1) reaches the threshold; in
\* training mode the threshold is 0 and every such position is written.
C4_AlleleFrequencyTest ==
    \A e \in Drained :
        ReachedAfTest(e) =>
            /\ (e.stage = "written") <=>
                    \/ TopSymbol(e.tally) # e.reference_base
                    \/ SecondCount(e.tally) * ThresholdInForce.den
                            >= ThresholdInForce.num * AtLeastOne(Coverage(e.tally))
            /\ args.gen4Training => e.stage = "written"

\* outside training mode, one position was written on the strength of its second
\* count although its top symbol is the reference base, and another was rejected
C4_Witness ==
    /\ ~args.gen4Training
    /\ \E e \in Drained :
            /\ e.stage = "written"
            /\ TopSymbol(e.tally) = e.reference_base
            /\ SecondCount(e.tally) > 0
    /\ \E e \in Drained : e.stage = "af"

----------------------------------------------------------------------------
(* C5 *)

ReachedDepthTest(e) == e.stage \in {"depth", "af", "written"}

\* C5 as stated: the depth of every tally that reaches the depth test is
\* A + C + G + T of that tally.
C5_DepthIsACGT ==
    \A e \in Drained : ReachedDepthTest(e) => e.depth = BaseCalls(e.tally)

\* C5 amended: the tally has a seventh counter, N, for query bases N, and the
\* depth of every tally that reaches the depth test, the sum of all counters minus
\* the insertion and the deletion count, is A + C + G + T + N of that tally.
C5_DepthIsACGTN ==
    \A e \in Drained : ReachedDepthTest(e) => e.depth = BaseCalls(e.tally) + e.tally["N"]

\* a tally with an N, a base call, an insertion and a deletion reached the depth test
C5_Witness ==
    \E e \in Drained :
        /\ ReachedDepthTest(e)
        /\ e.tally["N"] > 0 /\ BaseCalls(e.tally) > 0
        /\ e.tally["D"] > 0

----------------------------------------------------------------------------
(* C6 *)

\* C6: every candidate written has a depth that is at least the minimum coverage,
\* and no drained position with fewer base calls than the minimum coverage is
\* written, in training mode as outside it.
C6_DepthTest ==
    /\ \A k \in 1..Len(can_fp) : can_fp[k].depth >= args.minCoverage
    /\ \A e \in Drained : Coverage(e.tally) < args.minCoverage => e.stage # "written"

\* in training mode one position was rejected for its depth and another written
C6_Witness ==
    /\ args.gen4Training
    /\ \E e \in Drained : e.stage = "depth" /\ Coverage(e.tally) > 0
    /\ can_fp # <<>>

----------------------------------------------------------------------------
(* C7 *)

SingleReadRun == args.bam_fn.kind = "one50M"

\* the stream is over and held the one read
SingleReadDone == SingleReadRun /\ pc = "done" /\ number_of_reads_processed = 1

\* the candidate of the mismatch: depth 1, the mismatch base on top
MismatchWritten ==
    \E k \in 1..Len(can_fp) :
        /\ can_fp[k].position = args.bam_fn.start + 10
        /\ can_fp[k].depth = 1
        /\ can_fp[k].base_count[1] = <<args.bam_fn.base, 1>>
        /\ can_fp[k].reference_base # args.bam_fn.base

\* C7 as stated: outside training mode and with no region, when the stream holds
\* one admitted read 50M that differs from the reference at offset 10 only, that
\* position has depth 1, the mismatch base on top, and is written for every
\* threshold.
C7_MismatchAlwaysWritten == SingleReadDone => MismatchWritten

\* C7 amended: ... is written for every threshold provided the minimum coverage is
\* at most 1; with the default minimum coverage of 4 it is rejected by the depth test.
C7_MismatchWrittenAtCoverage1 ==
    /\ (SingleReadDone /\ args.minCoverage <= 1) => MismatchWritten
    /\ (SingleReadDone /\ args.minCoverage > 1) => can_fp = <<>>

\* the run is over with the threshold at 1 and the mismatch written
C7_Witness ==
    /\ SingleReadDone
    /\ args.threshold = Rational(1, 1)
    /\ MismatchWritten

----------------------------------------------------------------------------
(* C8 *)

\* the 1-based positions the variant file lists for a contig
KnownVariants(ctg_name) ==
    IF args.var_fn = None THEN {}
    ELSE {int(columns[2]) : columns \in {c \in Get(args.var_fn) : c[1] = ctg_name}}

\* C8: in training mode with a known-variant file no candidate is ever written
\* whose key contig:position is in the known-variant set.
C8_NoKnownVariantWritten ==
    (args.gen4Training /\ args.var_fn # None) =>
        \A k \in 1..Len(can_fp) :
            can_fp[k].position \notin KnownVariants(can_fp[k].ctg_name)

\* a known variant that would have passed every other test was drained beside a
\* position that was written
C8_Witness ==
    /\ args.gen4Training /\ args.var_fn # None
    /\ \E e \in Drained :
            /\ e.position + 1 \in KnownVariants(ContigName)
            /\ Coverage(e.tally) >= args.minCoverage
            /\ e.stage = "probability"
    /\ \E e \in Drained : e.stage = "written"

----------------------------------------------------------------------------
(* C9 *)

InRange(position) ==
    args.ctgStart # None /\ args.ctgEnd # None
        => (Get(args.ctgStart) <= position /\ position <= Get(args.ctgEnd))

InBed(zero_based_position) ==
    args.bed_fn # None => zero_based_position \in Get(args.bed_fn)[ContigName]

\* C9: with a contig range every written candidate lies in it (1-based); with a BED
\* index every written candidate's 0-based position is covered by it; a drained
\* position that fails either test is not written and is still evicted.
C9_RegionTest ==
    /\ \A k \in 1..Len(can_fp) :
            InRange(can_fp[k].position) /\ InBed(can_fp[k].position - 1)
    /\ \A e \in Drained :
            /\ ~(InRange(e.position + 1) /\ InBed(e.position)) => e.stage = "region"
            /\ e.position \notin DOMAIN pileup

\* with a range and a BED index, positions outside each were drained and evicted,
\* and a position inside both was written
C9_Witness ==
    /\ args.ctgStart # None /\ args.bed_fn # None
    /\ \E e \in Drained : ~InRange(e.position + 1) /\ InBed(e.position)
    /\ \E e \in Drained : InRange(e.position + 1) /\ ~InBed(e.position)
    /\ \E e \in Drained : e.stage = "written"

----------------------------------------------------------------------------
(* C10 *)

\* the lines the last iteration wrote are the last lines of the output
LastLines ==
    LET w == Written(last.drained)
    IN /\ Len(w) <= Len(can_fp)
       /\ \A k \in 1..Len(w) :
            LET line == can_fp[Len(can_fp) - Len(w) + k]
            IN /\ line.position = w[k].position + 1
               /\ line.ctg_name = ContigName
               /\ line.reference_base = w[k].reference_base
               /\ line.depth = w[k].depth
               /\ \A n \in 1..Len(line.base_count) :
                    line.base_count[n][2] = w[k].tally[line.base_count[n][1]]

PairsOf(line, symbols) ==
    /\ Len(line.base_count) = Cardinality(symbols)
    /\ {line.base_count[n][1] : n \in 1..Len(line.base_count)} = symbols
    /\ NonIncreasing(line.base_count)

\* C10 as stated: every line carries, after contig, position, reference base and
\* depth, exactly six (symbol, count) pairs, one for each of A, C, G, T, I, D, by
\* non-increasing count, with the counts of the tally when it was drained.
C10_SixPairs ==
    /\ \A k \in 1..Len(can_fp) : PairsOf(can_fp[k], {"A", "C", "G", "T", "I", "D"})
    /\ LastLines

\* C10 amended: ... exactly seven pairs, one for each of A, C, G, T, I, D and N ...
C10_SevenPairs ==
    /\ \A k \in 1..Len(can_fp) : PairsOf(can_fp[k], {"A", "C", "G", "T", "I", "D", "N"})
    /\ LastLines

\* a line was written whose tally holds base calls and N's
C10_Witness ==
    \E e \in Drained :
        /\ e.stage = "written"
        /\ e.tally["N"] > 0
        /\ BaseCalls(e.tally) > 0

----------------------------------------------------------------------------
(* C11 *)

\* the position reached the reference lookup
ReachedLookup(e) == e.stage \notin {"region", "probability"}

\* its index into the fetched reference string lies outside [0, length)
IndexOutside(e) ==
    \/ ReferenceIndex(e.position) < 0
    \/ ReferenceIndex(e.position) >= Len(reference_sequence)

\* C11: a drained position whose index into the fetched reference string lies
\* outside [0, length of the string) is skipped at the lookup: no candidate is
\* written for it, and the positions after it in the same drain are still
\* filtered.
C11_LookupFailureSkipped ==
    \A e \in Drained :
        (ReachedLookup(e) /\ IndexOutside(e)) =>
            /\ e.stage = "reference"
            /\ \A k \in 1..Len(can_fp) : can_fp[k].position # e.position + 1

----------------------------------------------------------------------------
(* C12 *)

\* the positions an iteration ran through the filter, in the order it took them
PositionsOf(log) == [k \in 1..Len(log) |-> log[k].position]

\* the iteration that leaves the main loop by `break`
LeavesLoop == pc # "done" /\ pc' = "done"

\* the final drain: every held position, in ascending order, and an empty pileup
FinalDrain ==
    LeavesLoop =>
        /\ PositionsOf(last'.drained) = SortAscending(DOMAIN pileup)
        /\ pileup' = <<>>

\* C12: for every finite alignment stream the driver eventually reaches DONE; at
\* the end of the input every position still held is run through the filter in
\* ascending order whatever the horizon, and the pileup is empty when the main
\* loop exits.
C12_FinalDrainAndDone == <>(pc = "done") /\ [][FinalDrain]_vars

\* the final drain alone, which every run that reaches the end of its input makes
C12_FinalDrainWhenReached == [][FinalDrain]_vars

----------------------------------------------------------------------------
(* C13 *)

\* C13: for coordinate-sorted input every position is deleted from the pileup at
\* most once in a run, and once a position has been deleted no later record, one
\* that starts with an insertion or deletion included, creates a tally at it again.
C13_EvictedOnce ==
    /\ \A i, j \in 1..Len(evicted) : i < j => evicted[i].position # evicted[j].position
    /\ \A k \in 1..Len(evicted) : evicted[k].position \notin DOMAIN pileup

----------------------------------------------------------------------------
(* C14 *)

\* the driver is about to read the next record
AboutToRead == pc \in {"reading", "eof"}

Skipped == last.kind \in {"mapq", "star", "softclip"}

HeldFromPOS == \A x \in DOMAIN pileup : x >= POS

\* C14 as stated: whenever the driver is about to read the next record, also after
\* a record skipped by the mapping-quality, '*' or soft-clip test, every
\* coordinate held in the pileup is at least POS, the 0-based start of the record
\* parsed last.
C14_HeldFromHorizon == AboutToRead => HeldFromPOS

\* C14 amended: after an iteration that admitted a record, or that read an empty
\* line, every coordinate held is at least POS; a record skipped by one of the
\* three tests moves POS to its start and leaves the pileup undrained, with the
\* coordinates it held before.
C14_HeldFromHorizonAfterDrain ==
    /\ (AboutToRead /\ last.kind \in {"admitted", "empty"}) => HeldFromPOS
    /\ (AboutToRead /\ Skipped) => (pileup = last.piled /\ POS = last.row.POS - 1)

\* a record that starts with an insertion was admitted while positions behind it
\* were held; the positions it left are at or after its start
C14_Witness ==
    /\ AboutToRead /\ last.kind = "admitted"
    /\ last.row.ops[1][2] = "I"
    /\ \E x \in DOMAIN last.piled : x < POS
    /\ DOMAIN pileup # {}

----------------------------------------------------------------------------
(* C15 *)

\* the admitted records the stream may deliver next, by their start
DecodedNext(start) ==
    {r \in NextRows :
        /\ r.QNAME[1] # "@" /\ r.RNAME = ContigName /\ r.POS = start
        /\ Admission(r) = "admitted"
        /\ ~DecodeRaises(pileup, r)}

\* One iteration of the main loop on an admitted record, from the pileup p, with
\* every draw passing: what it filtered, what it wrote, what it left held.
OneRead(p, row) ==
    LET piled == Accumulate(p, row)
        positions == PositionsToDrain(piled, row.POS - 1, FALSE)
        log == Filtered(piled, positions, [x \in Range(positions) |-> TRUE])
    IN [filtered |-> {<<log[k].position, log[k].tally>> : k \in 1..Len(log)},
        lines |-> Range(Lines(log)),
        held |-> Evict(piled, positions)]

\* two iterations, on r1 then on r2
TwoReads(p, r1, r2) ==
    LET first == OneRead(p, r1)
        second == OneRead(first.held, r2)
    IN [filtered |-> first.filtered \cup second.filtered,
        lines |-> first.lines \cup second.lines,
        held |-> second.held]

\* C15: when the next two admitted records of the stream have the same start,
\* the tallies with which the positions are filtered, the tallies left held and
\* (outside training mode) the lines written are the same whichever of the two
\* comes first.
C15_OrderIndependent ==
    pc = "reading" =>
        \A start \in Starts : \A r1, r2 \in DecodedNext(start) :
            LET a == TwoReads(pileup, r1, r2)
                b == TwoReads(pileup, r2, r1)
            IN /\ a.filtered = b.filtered
               /\ a.held = b.held
               /\ ~args.gen4Training => a.lines = b.lines

----------------------------------------------------------------------------
(* C16 *)

\* the counts all admitted records of the stream made at a position
BatchTally(position) ==
    IF position \in DOMAIN batch THEN batch[position] ELSE NewTally

\* C16: when the stream has been read to its end, the counts with which each
\* position was run through the filter are, for every symbol, the increments
\* all admitted records of the stream made at that position.
C16_StreamingEqualsBatch ==
    pc = "done" =>
        \A k \in 1..Len(evicted) : evicted[k].tally = BatchTally(evicted[k].position)

----------------------------------------------------------------------------
(* What the decoding of a record is compared with: the operations of its CIGAR *)

\* the iteration admitted a record and decoded it to the end of its CIGAR
Decodes == rows' = rows + 1 /\ last'.kind = "admitted" /\ pc' # "raised"

TallyAt(p, x) == IF x \in DOMAIN p THEN p[x] ELSE NewTally

\* what the decoding added to the counter of `symbol` at position x
Added(x, symbol) == TallyAt(last'.piled, x)[symbol] - TallyAt(pileup, x)[symbol]

BaseSymbols == {"A", "C", "G", "T", "N"}

BasesAdded(x) == SumOver([b \in BaseSymbols |-> Added(x, b)], BaseSymbols)

\* the positions whose tally the decoding created or changed
Touched == {x \in DOMAIN last'.piled : last'.piled[x] # TallyAt(pileup, x)}

\* the 0-based reference position operation k starts at: matches and deletions
\* before it consume reference, insertions do not
RefBefore(row, k) ==
    (row.POS - 1) + SumLengths(SubSeq(row.ops, 1, k - 1), {"M", "=", "X", "D"})

\* the operations of the record with opcode in `codes`
OpsOf(row, codes) == {k \in 1..Len(row.ops) : row.ops[k][2] \in codes}

\* the match operations that cover position x
Covering(row, x) ==
    {k \in OpsOf(row, {"M", "=", "X"}) :
        RefBefore(row, k) <= x /\ x < RefBefore(row, k) + row.ops[k][1]}

\* the positions an operation of the record may touch
Span(row) == (row.POS - 2)..(row.POS + SumLengths(row.ops, OpCodes))

----------------------------------------------------------------------------
(* C17 *)

SingleRun(ops) == Len(ops) = 1 /\ ops[1][2] \in {"M", "=", "X"}

\* C17: an admitted record whose CIGAR is one run nM, n= or nX from the 0-based
\* position p adds exactly 1 to exactly one base counter, that of its query base,
\* at each of p .. p+n-1, so that the depth there rises by 1; it changes no
\* insertion or deletion counter and touches no other position.
C17_MatchDecoding ==
    [][(Decodes /\ SingleRun(last'.row.ops)) =>
            LET row == last'.row
                p == row.POS - 1
                n == row.ops[1][1]
            IN /\ Touched = p..(p + n - 1)
               /\ DOMAIN last'.piled = DOMAIN pileup \cup (p..(p + n - 1))
               /\ \A x \in p..(p + n - 1) :
                    /\ Added(x, evc_base_from(row.SEQ[x - p + 1])) = 1
                    /\ \A t \in SymbolSet \ {evc_base_from(row.SEQ[x - p + 1])} :
                            Added(x, t) = 0
                    /\ DepthOf(last'.piled[x]) = DepthOf(TallyAt(pileup, x)) + 1]_vars

\* a read 10M was decoded over positions an earlier read had covered
C17_Witness ==
    /\ last.kind = "admitted" /\ pc # "raised"
    /\ last.row.ops = << <<10, "M">> >>
    /\ \A x \in 100..109 : Coverage(last.piled[x]) = 2

----------------------------------------------------------------------------
(* C18 *)

\* the insertions of the record counted at x: those whose operation starts at x + 1
InsertionsAt(row, x) == {k \in OpsOf(row, {"I"}) : RefBefore(row, k) - 1 = x}

\* C18: an insertion of any length adds exactly 1 to the insertion counter of the
\* reference position before it and does not advance the reference position, so
\* the matches after it go on from where the matches before it ended; a read
\* 5M2I5M from 0-based 100 adds one base at each of 100-104 and 105-109 and one
\* insertion at 104, and touches exactly 10 positions.
C18_InsertionDecoding ==
    [][Decodes =>
            LET row == last'.row
            IN /\ \A x \in Span(row) :
                    /\ Added(x, "I") = Cardinality(InsertionsAt(row, x))
                    /\ OpsOf(row, {"I"}) # {} =>
                            BasesAdded(x) = Cardinality(Covering(row, x))
               /\ (row.ops = << <<5, "M">>, <<2, "I">>, <<5, "M">> >> /\ row.POS = 101) =>
                    /\ \A x \in 100..109 : BasesAdded(x) = 1
                    /\ \A x \in 100..109 : Added(x, "I") = (IF x = 104 THEN 1 ELSE 0)
                    /\ Touched = 100..109
                    /\ Cardinality(Touched) = 10]_vars

\* the read 5M2I5M from 0-based 100 was decoded over an earlier read
C18_Witness ==
    /\ last.kind = "admitted" /\ pc # "raised"
    /\ last.row.ops = << <<5, "M">>, <<2, "I">>, <<5, "M">> >>
    /\ last.piled[104]["I"] >= 1
    /\ Coverage(last.piled[109]) = 2

----------------------------------------------------------------------------
(* C19 *)

\* the deletions of the record counted at x: those whose operation starts at x + 1
DeletionsAt(row, x) == {k \in OpsOf(row, {"D"}) : RefBefore(row, k) - 1 = x}

\* the positions the deletions of the record span
DeletedPositions(row) ==
    {x \in Span(row) :
        \E k \in OpsOf(row, {"D"}) :
            RefBefore(row, k) <= x /\ x < RefBefore(row, k) + row.ops[k][1]}

\* C19: a deletion of length k adds exactly 1 to the deletion counter of the
\* reference position before it and advances the reference position by k; no
\* base is counted at the k deleted positions and the matches after it start k
\* positions on; a read 5M3D5M from 0-based 100 adds one deletion at 104, leaves
\* 105-107 as they were, and adds its last five bases at 108-112.
C19_DeletionDecoding ==
    [][Decodes =>
            LET row == last'.row
            IN /\ \A x \in Span(row) :
                    /\ Added(x, "D") = Cardinality(DeletionsAt(row, x))
                    /\ OpsOf(row, {"D"}) # {} =>
                            BasesAdded(x) = Cardinality(Covering(row, x))
               /\ \A x \in DeletedPositions(row) : BasesAdded(x) = 0
               /\ (row.ops = << <<5, "M">>, <<3, "D">>, <<5, "M">> >> /\ row.POS = 101) =>
                    /\ Added(104, "D") = 1
                    /\ \A x \in 105..107 : TallyAt(last'.piled, x) = TallyAt(pileup, x)
                    /\ \A x \in (100..104) \cup (108..112) : BasesAdded(x) = 1
                    /\ Touched = (100..104) \cup (108..112)]_vars

\* the read 5M3D5M from 0-based 100 was decoded into an empty pileup: 105-107 hold
\* no tally
C19_Witness ==
    /\ last.kind = "admitted" /\ pc # "raised"
    /\ last.row.ops = << <<5, "M">>, <<3, "D">>, <<5, "M">> >>
    /\ last.piled[104]["D"] = 1
    /\ DOMAIN last.piled = (100..104) \cup (108..112)

----------------------------------------------------------------------------
(* C20 *)

Distance(p, v) == IF p >= v THEN p - v ELSE v - p

\* the contigs the variant file names
KnownContigs == IF args.var_fn = None THEN {} ELSE {columns[1] : columns \in Get(args.var_fn)}

\* no position of the index is beyond the last variant plus the outer offset
LastNearPosition ==
    LET all == UNION {KnownVariants(c) : c \in KnownContigs}
    IN IF all = {} THEN 0 ELSE (CHOOSE v \in all : \A w \in all : w <= v) + 16

\* positions p > 0 at offset magnitude 15 or 16 from a known variant of the
\* contig, not a known variant, and not closer than 15 to any known variant
NearPositions(ctg_name) ==
    LET known == KnownVariants(ctg_name)
    IN {p \in 1..LastNearPosition :
            /\ \E v \in known : Distance(p, v) \in {15, 16}
            /\ p \notin known
            /\ \A v \in known : ~(Distance(p, v) < 15)}

PositionKey(ctg_name, p) == <<ctg_name, ":">> \o str(p)

IndexBuilt == pc # "index" /\ args.gen4Training = TRUE /\ args.var_fn # None

\* C20: once the index is built from a variant file, non_variants_map is exactly
\* the set of keys contig:p with p > 0 at offset magnitude 15 or 16 from some
\* known variant of the contig, p not a known variant and p not at offset
\* magnitude below 15 from any known variant of the contig; it shares no key with
\* variants_map, and for the single variant chr1:1000 it is the keys of 984, 985,
\* 1015 and 1016.
C20_ProximityIndex ==
    IndexBuilt =>
        /\ non_variants_map =
                UNION {{PositionKey(c, p) : p \in NearPositions(c)} : c \in KnownContigs}
        /\ non_variants_map \cap variants_map = {}
        /\ (Get(args.var_fn) = {VariantRow(ContigName, 1000)}
                => non_variants_map =
                        {PositionKey(ContigName, p) : p \in {984, 985, 1015, 1016}})

\* the index of a file with the single variant chr1:1000 has been built
C20_Witness ==
    /\ IndexBuilt
    /\ Get(args.var_fn) = {VariantRow(ContigName, 1000)}
    /\ Cardinality(non_variants_map) = 4

\* two variants 20 apart: the window of one cuts into the band of the other
C20_WitnessOverlap ==
    /\ IndexBuilt
    /\ Get(args.var_fn) = {VariantRow(ContigName, 1000), VariantRow(ContigName, 1020)}
    /\ Cardinality(non_variants_map) = 4

====
